---------------------------- MODULE Spec2Model ----------------------------
(***************************************************************************)
(* Appraisal Analysis Tool: preset manager, CSV header cache and header    *)
(* mapping editor.  Two versions of the tool are modelled:                 *)
(*   "stage2" : appraisal_tool_stage2_presets_help.py (module-level state) *)
(*   "v041"   : appraisal_tool_v0.4.1.py (class App)                       *)
(*                                                                         *)
(* Text is a sequence of one-character strings, so that str.strip() and    *)
(* str.lower() are computed and not assumed.  A Python dict is a function  *)
(* whose DOMAIN is its key set; a Python list is a sequence.               *)
(***************************************************************************)
EXTENDS Integers, Sequences, FiniteSets, TLC

VARIABLES
    version,             \* which of the two programs is running
    presets,             \* presets / self.presets : name -> (field -> text)
    presets_file,        \* content of presets.json
    active_preset,       \* current_preset / self.active_preset
    adjustment_entries,  \* adj_entries / self.adjustment_entries : field -> text
    market_csv_path,     \* self.market_csv_path
    lot_csv_path,        \* self.lot_csv_path
    cached_headers,      \* self.cached_headers : list of header texts
    headers_samples,     \* self.headers_samples : header text -> list of texts
    lastFile,            \* history: the CSV file the last successful header read was given
    headers_map,         \* self.headers_map : logical field -> header text
    custom_fields,       \* self.custom_fields : list of {"name", "header"} dicts
    headers_map_file,    \* content of headers_map.json
    custom_fields_file,  \* content of custom_fields.json
    mapper_open,         \* the "Set File Headers" window exists
    mapper_widgets,      \* self._mapper_widgets : logical field -> text of its combobox
    combo_values,        \* logical field -> the "values" list of its combobox
    custom_widgets,      \* self._custom_widgets : list of (name entry text, header combobox text)
    msgs,                \* titles of the message boxes shown by the last handler
    lastOp,              \* history: the handler that ran last, with its argument
    trip,                \* history: progress of a save / restart / apply sequence
    store,               \* one persisted document followed through json.dump / json.load
    peer                 \* the memory of a second running instance of the program

presetVars == <<presets, presets_file, active_preset, adjustment_entries, trip>>

csvVars == <<market_csv_path, lot_csv_path, cached_headers, headers_samples, lastFile>>

mapperVars == <<headers_map, custom_fields, headers_map_file, custom_fields_file,
                mapper_open, mapper_widgets, combo_values, custom_widgets>>

sideVars == <<store, peer>>

vars == <<version, presetVars, csvVars, mapperVars, msgs, lastOp, sideVars>>

---------------------------------------------------------------------------
(* Text *)

Whitespace == {" "}

RECURSIVE LStrip(_)
LStrip(s) == IF s = <<>> THEN s
             ELSE IF Head(s) \in Whitespace THEN LStrip(Tail(s)) ELSE s

RECURSIVE RStrip(_)
RStrip(s) == IF s = <<>> THEN s
             ELSE IF s[Len(s)] \in Whitespace THEN RStrip(SubSeq(s, 1, Len(s) - 1)) ELSE s

\* str.strip()
Strip(s) == RStrip(LStrip(s))

EmptyText == <<>>

---------------------------------------------------------------------------
(* Dicts *)

EmptyDict == <<>>

\* d.get(k, default)
DictGet(d, k, default) == IF k \in DOMAIN d THEN d[k] ELSE default

\* Mutant of DictSet: every key gets the value.
DictSetAll(d, k, v) == [x \in (DOMAIN d) \cup {k} |-> v]

\* d[k] = v
DictSet(d, k, v) == [x \in (DOMAIN d) \cup {k} |-> IF x = k THEN v ELSE d[x]]

---------------------------------------------------------------------------
(* Program constants *)

\* Q1..Q5 are handled alike by every handler; two names are enough for
\* "the active one" and "another one", and keep the state space finite.
PresetNames == {"Q1", "Q2"}

\* The first two of the adjustment fields (the entries built at start-up).
AdjFields == {"GLA $/sf", "Basement $/sf"}

\* current_preset = None / self.active_preset = None
None == "None"

\* {"Q1": {}, ..., "Q5": {}}
DefaultPresets == [n \in PresetNames |-> EmptyDict]

\* What the user can leave in an adjustment entry: nothing, only blanks,
\* an amount with a blank in front.  (The plain amount "5" gets into an
\* entry when stage2 applies a preset it saved.)
AdjInputs == {<<>>, <<" ">>, <<" ", "5">>}

Versions == {"stage2", "v041"}

\* No document is being followed through the store.
IdleStore == [type |-> "none"]

\* No second instance is running.
NoPeer == [running |-> FALSE]

---------------------------------------------------------------------------
(* Persistence store *)

AbsentFile == [kind |-> "absent", doc |-> EmptyDict]
CorruptFile == [kind |-> "corrupt", doc |-> EmptyDict]
JsonFile(doc) == [kind |-> "json", doc |-> doc]

\* A Python list met where the program expects a dict (json.load returns a
\* list for a file whose text is a JSON array).
PyList(items) == [py_list |-> items]

\* Whether a loaded value is a dict: has .get() and item assignment by name.
IsDict(v) == "py_list" \notin DOMAIN v

\* load_json / load_presets: the parsed document, or the default when the
\* file cannot be opened or parsed.
load_json(file, default) == IF file.kind = "json" THEN file.doc ELSE default

\* Mutant of WriteOutcomes: a successful write keeps the entry the file
\* holds under a key for which the data holds nothing.
WriteOutcomesMerging(file, data) ==
    { [ok |-> TRUE,
       file |-> JsonFile([n \in DOMAIN data |->
                            IF data[n] = EmptyDict /\ file.kind = "json" /\ n \in DOMAIN file.doc
                            THEN file.doc[n] ELSE data[n]])],
      [ok |-> FALSE, file |-> file],
      [ok |-> FALSE, file |-> CorruptFile] }

\* The files open(path, "w") + json.dump can leave behind.  A successful
\* write leaves the document; a failed open leaves the file as it was; a
\* failure after open() has truncated the file leaves an unparsable file.
WriteOutcomes(file, data) ==
    { [ok |-> TRUE,  file |-> JsonFile(data)],
      [ok |-> FALSE, file |-> file],
      [ok |-> FALSE, file |-> CorruptFile] }

\* The outcomes of a write made by the header mapping editor: success, or the
\* failure after open() has truncated the file.  (The failed open, after
\* which an older document stays on disk, is explored on the presets file.)
EditorWriteOutcomes(file, data) ==
    {w \in WriteOutcomes(file, data) : w.ok \/ w.file = CorruptFile}

\* save_json (v041) shows a warning when the write fails; save_presets
\* (stage2) passes silently.
save_msgs(v, ok) == IF ok \/ v = "stage2" THEN <<>> ELSE <<"Save Error">>

---------------------------------------------------------------------------
(* CSV files *)

\* A line of a CSV file as csv.reader returns it: its cells, or an error
\* raised when the line is read (UnicodeDecodeError, csv.Error).
GoodLine(cells) == [bad |-> FALSE, cells |-> cells]
BadLine == [bad |-> TRUE, cells |-> <<>>]

\* A file that cannot be opened, and "no file" of the history variable.
MissingFile == [exists |-> FALSE, header |-> BadLine, rows |-> <<>>]
NoFile == MissingFile

---------------------------------------------------------------------------
(* Preset manager *)

\* Mutant of FillEntries: the entry is not deleted first, so a field the
\* preset lacks keeps its text.
FillEntriesAdditive(entries, data) ==
    [f \in DOMAIN entries |-> IF f \in DOMAIN data THEN data[f] ELSE entries[f]]

\* entry.delete(0, END); if field in data: entry.insert(0, data[field])
FillEntries(entries, data) ==
    [f \in DOMAIN entries |-> IF f \in DOMAIN data THEN data[f] ELSE EmptyText]

\* stage2 save_preset: the trimmed value of every entry whose trimmed value
\* is non-empty.
CaptureStage2(entries) ==
    [f \in {g \in DOMAIN entries : Strip(entries[g]) # EmptyText} |-> Strip(entries[f])]

\* v041 _save_preset: data[field] = entry.get() for every entry.
CaptureV041(entries) == [f \in DOMAIN entries |-> entries[f]]

Capture(v, entries) == IF v = "stage2" THEN CaptureStage2(entries) ELSE CaptureV041(entries)

\* Mutant of NoPresetSelected: the guard is missing.
NoPresetSelectedNever(a) == FALSE

\* "if not preset_name" / "if not self.active_preset"
NoPresetSelected(a) == a = None

\* The active preset after "Clear Adjustments" / "Clear / Reset All":
\* stage2 leaves current_preset alone, v041 sets active_preset = None.
ActiveAfterClear(v, a) == IF v = "stage2" THEN a ELSE None

ClearedEntries(entries) == [f \in DOMAIN entries |-> EmptyText]

\* History record of a handler run; stale is filled in by ApplyPreset with
\* the entries that held text the applied preset does not have.
Op(op, name) == [op |-> op, name |-> name, stale |-> {}]

NoTrip == [stage |-> "none", name |-> None, entries |-> ClearedEntries(adjustment_entries)]

\* The user edits one adjustment entry: one of fields gets one of inputs.
TypeAdjustmentIn(fields, inputs) ==
    \E f \in fields, v \in inputs :
        /\ adjustment_entries[f] # v
        /\ adjustment_entries' = [adjustment_entries EXCEPT ![f] = v]
        /\ msgs' = <<>>
        /\ lastOp' = Op("type", None)
        /\ trip' = NoTrip
        /\ UNCHANGED <<sideVars, version, presets, presets_file, active_preset, csvVars, mapperVars>>

TypeAdjustment == TypeAdjustmentIn(AdjFields, AdjInputs)

\* apply_preset / App._apply_preset
\* When presets is not a dict, presets.get raises AttributeError: in stage2
\* after current_preset was set, in v041 as the first statement.  Tk reports
\* the exception of a callback and keeps running.
ApplyPreset ==
    \E name \in PresetNames :
        IF IsDict(presets)
        THEN /\ active_preset' = name
             /\ adjustment_entries' = FillEntries(adjustment_entries, DictGet(presets, name, EmptyDict))
             /\ msgs' = <<>>
             /\ lastOp' = [op |-> "apply", name |-> name,
                            stale |-> {f \in AdjFields :
                                          /\ adjustment_entries[f] # EmptyText
                                          /\ f \notin DOMAIN DictGet(presets, name, EmptyDict)}]
             /\ trip' = IF trip.stage = "restarted" /\ trip.name = name
                        THEN [trip EXCEPT !.stage = "applied"] ELSE NoTrip
             /\ UNCHANGED <<sideVars, version, presets, presets_file, csvVars, mapperVars>>
        ELSE /\ active_preset' = IF version = "stage2" THEN name ELSE active_preset
             /\ msgs' = <<>>
             /\ lastOp' = Op("apply_raised", name)
             /\ trip' = NoTrip
             /\ UNCHANGED <<sideVars, version, presets, presets_file, adjustment_entries, csvVars, mapperVars>>

\* save_preset(current_preset, adj_entries) / App._save_preset
\* When presets is not a dict, "presets[preset_name] = data" raises TypeError
\* before anything is written.
SavePreset ==
    IF NoPresetSelected(active_preset)
    THEN /\ msgs' = <<IF version = "stage2" THEN "No preset selected" ELSE "Save Preset">>
         /\ lastOp' = Op("save_none", None)
         /\ trip' = NoTrip
         /\ UNCHANGED <<sideVars, version, presets, presets_file, active_preset, adjustment_entries,
                        csvVars, mapperVars>>
    ELSE IF ~IsDict(presets)
    THEN /\ msgs' = <<>>
         /\ lastOp' = Op("save_raised", active_preset)
         /\ trip' = NoTrip
         /\ UNCHANGED <<sideVars, version, presets, presets_file, active_preset, adjustment_entries,
                        csvVars, mapperVars>>
    ELSE \E w \in WriteOutcomes(presets_file,
                                DictSet(presets, active_preset, Capture(version, adjustment_entries))) :
         /\ presets' = DictSet(presets, active_preset, Capture(version, adjustment_entries))
         /\ presets_file' = w.file
         /\ msgs' = save_msgs(version, w.ok) \o <<"Preset Saved">>
         /\ lastOp' = Op(IF w.ok THEN "save" ELSE "save_failed", active_preset)
         /\ trip' = IF w.ok
                    THEN [stage |-> "saved", name |-> active_preset, entries |-> adjustment_entries]
                    ELSE NoTrip
         /\ UNCHANGED <<sideVars, version, active_preset, adjustment_entries, csvVars, mapperVars>>

\* clear_adjustments / App._clear_adjustments
ClearAdjustments ==
    /\ adjustment_entries' = ClearedEntries(adjustment_entries)
    /\ active_preset' = ActiveAfterClear(version, active_preset)
    /\ msgs' = <<>>
    /\ lastOp' = Op("clear_adjustments", None)
    /\ trip' = NoTrip
    /\ UNCHANGED <<sideVars, version, presets, presets_file, csvVars, mapperVars>>

\* clear_all / App._clear_all (v041 also forgets the two chosen paths; the
\* cached headers and samples stay)
ClearAll ==
    /\ adjustment_entries' = ClearedEntries(adjustment_entries)
    /\ active_preset' = ActiveAfterClear(version, active_preset)
    /\ market_csv_path' = IF version = "v041" THEN None ELSE market_csv_path
    /\ lot_csv_path' = IF version = "v041" THEN None ELSE lot_csv_path
    /\ msgs' = <<>>
    /\ lastOp' = Op("clear_all", None)
    /\ trip' = NoTrip
    /\ UNCHANGED <<sideVars, version, presets, presets_file, cached_headers, headers_samples, lastFile,
                   mapperVars>>

\* The process ends and the program is started again: module start-up
\* (stage2) / App.__init__ (v041).
Restart ==
    /\ presets' = load_json(presets_file, DefaultPresets)
    /\ active_preset' = None
    /\ adjustment_entries' = ClearedEntries(adjustment_entries)
    /\ msgs' = <<>>
    /\ lastOp' = Op("restart", None)
    /\ trip' = IF trip.stage = "saved" THEN [trip EXCEPT !.stage = "restarted"] ELSE NoTrip
    /\ market_csv_path' = None
    /\ lot_csv_path' = None
    /\ cached_headers' = <<>>
    /\ headers_samples' = EmptyDict
    /\ lastFile' = NoFile
    /\ headers_map' = load_json(headers_map_file, EmptyDict)
    /\ custom_fields' = load_json(custom_fields_file, <<>>)
    /\ mapper_open' = FALSE
    /\ mapper_widgets' = EmptyDict
    /\ combo_values' = EmptyDict
    /\ custom_widgets' = <<>>
    /\ UNCHANGED <<sideVars, version, presets_file, headers_map_file, custom_fields_file>>

InitProgram ==
    /\ version \in Versions
    /\ presets_file = AbsentFile
    /\ presets = load_json(presets_file, DefaultPresets)
    /\ active_preset = None
    /\ adjustment_entries = [f \in AdjFields |-> EmptyText]
    /\ market_csv_path = None
    /\ lot_csv_path = None
    /\ cached_headers = <<>>
    /\ headers_samples = EmptyDict
    /\ lastFile = NoFile
    /\ headers_map_file = AbsentFile
    /\ custom_fields_file = AbsentFile
    /\ headers_map = load_json(headers_map_file, EmptyDict)
    /\ custom_fields = load_json(custom_fields_file, <<>>)
    /\ mapper_open = FALSE
    /\ mapper_widgets = EmptyDict
    /\ combo_values = EmptyDict
    /\ custom_widgets = <<>>
    /\ msgs = <<>>
    /\ lastOp = Op("init", None)
    /\ trip = [stage |-> "none", name |-> None, entries |-> [f \in AdjFields |-> EmptyText]]

InitPresets ==
    /\ InitProgram
    /\ store = IdleStore
    /\ peer = NoPeer

NextPresets ==
    \/ TypeAdjustment
    \/ ApplyPreset
    \/ SavePreset
    \/ ClearAdjustments
    \/ ClearAll
    \/ Restart

SpecPresets == InitPresets /\ [][NextPresets]_vars

---------------------------------------------------------------------------
(* Start-up over a presets file the program did not write *)

\* What presets.json can hold when the program starts: nothing (deleted),
\* text that is not JSON, the JSON array [], a presets document with one
\* name only, a full presets document.
PresetsFileContents ==
    { AbsentFile, CorruptFile, JsonFile(PyList(<<>>)),
      JsonFile([n \in {"Q1"} |-> [f \in {"GLA $/sf"} |-> <<"5">>]]),
      JsonFile([n \in PresetNames |-> [f \in {"GLA $/sf"} |-> <<"7">>]]) }

\* The user, or another program, replaces presets.json.
EditPresetsFile ==
    \E file \in PresetsFileContents :
        /\ presets_file # file
        /\ presets_file' = file
        /\ msgs' = <<>>
        /\ lastOp' = Op("edit_file", None)
        /\ trip' = NoTrip
        /\ UNCHANGED <<sideVars, version, presets, active_preset, adjustment_entries, csvVars, mapperVars>>

InitLoad == InitPresets

NextLoad ==
    \/ EditPresetsFile
    \/ Restart
    \/ ApplyPreset
    \/ SavePreset
    \/ ClearAdjustments

SpecLoad == InitLoad /\ [][NextLoad]_vars

---------------------------------------------------------------------------
(* CSV header cache (v041) *)

\* "if i >= 3: break"
SampleLimit == 3

\* The most data lines a CSV file of the model has.
MaxRows == 4

DigitChar == <<"1", "2", "3", "4", "5", "6", "7", "8", "9">>

\* The text of cell j of data line i.  Distinct cells hold distinct text, so
\* a sample that is dropped, moved or taken from another line shows.
CellText(i, j) == <<"r", DigitChar[i], "c", DigitChar[j]>>

HeaderA == <<"A", "b">>
HeaderB == <<"b">>

\* Header rows: none (empty file or blank first line), one column, two
\* columns, the same name twice.
HeaderRows == {<<>>, <<HeaderA>>, <<HeaderA, HeaderB>>, <<HeaderA, HeaderA>>}

\* A data line has one cell less than the header, as many, or one more (with
\* a one-column header the short line is a blank line).
RowLens(n) == {k \in {n - 1, n, n + 1} : k >= 0}

DataLine(i, k) == GoodLine([j \in 1..k |-> CellText(i, j)])

\* The choices for data line i under a header of n names: a line of each
\* length, or a line whose reading raises.  The reader never gets past data
\* line SampleLimit + 1, so the lines after it are complete rows.
LineChoices(i, n) ==
    IF i > SampleLimit + 1 THEN {DataLine(i, n)}
    ELSE {DataLine(i, k) : k \in RowLens(n)} \cup {BadLine}

RECURSIVE LinesOf(_, _)
LinesOf(r, n) ==
    IF r = 0 THEN {<<>>}
    ELSE {Append(p, x) : p \in LinesOf(r - 1, n), x \in LineChoices(r, n)}

\* The files the user can choose.
CsvFiles ==
    {MissingFile, [exists |-> TRUE, header |-> BadLine, rows |-> <<>>]}
    \cup UNION {{[exists |-> TRUE, header |-> GoodLine(h), rows |-> rs] :
                    rs \in UNION {LinesOf(r, Len(h)) : r \in 0..MaxRows}} : h \in HeaderRows}

\* The path the file dialog returns; the program only tests it for emptiness.
ChosenPath == "chosen.csv"

\* restval of csv.DictReader: the value of a key the row has no cell for.
NoneValue == <<"None">>

\* csv.DictReader.__next__ for a row with at most as many cells as there
\* are field names: d = dict(zip(fieldnames, row)), then
\* d.update(dict.fromkeys(fieldnames[lr:], restval)).
RowDict(fieldnames, cells) ==
    [h \in {fieldnames[j] : j \in 1..Len(fieldnames)} |->
        IF \E j \in (Len(cells) + 1)..Len(fieldnames) : fieldnames[j] = h
        THEN NoneValue
        ELSE LET js == {j \in 1..Len(cells) : fieldnames[j] = h}
                 last == CHOOSE j \in js : \A k \in js : k <= j
             IN cells[last]]

\* Mutant of AppendSamples: a missing value is left out.
AppendSamplesOmitMissing(samples, row) ==
    [h \in DOMAIN samples |->
        IF row[h] = NoneValue THEN samples[h] ELSE Append(samples[h], row[h])]

\* for h, val in row.items(): samples[h].append("" if val is None else str(val))
AppendSamples(samples, row) ==
    [h \in DOMAIN samples |->
        Append(samples[h], IF row[h] = NoneValue THEN EmptyText ELSE row[h])]

\* The loop "for i, row in enumerate(reader)" from the lines not yet read,
\* with i rows already taken.  A blank line is skipped by DictReader; a row
\* with more cells than field names carries the key None, for which
\* samples[h] raises KeyError.
RECURSIVE ReadRows(_, _, _, _)
ReadRows(fieldnames, lines, i, samples) ==
    IF lines = <<>> THEN [ok |-> TRUE, samples |-> samples]
    ELSE IF Head(lines).bad THEN [ok |-> FALSE, samples |-> samples]
    ELSE IF Head(lines).cells = <<>> THEN ReadRows(fieldnames, Tail(lines), i, samples)
    ELSE IF i >= SampleLimit THEN [ok |-> TRUE, samples |-> samples]
    ELSE IF Len(Head(lines).cells) > Len(fieldnames) THEN [ok |-> FALSE, samples |-> samples]
    ELSE ReadRows(fieldnames, Tail(lines), i + 1,
                  AppendSamples(samples, RowDict(fieldnames, Head(lines).cells)))

\* samples = {h: [] for h in self.cached_headers}
NewSamples(headers) == [h \in {headers[j] : j \in 1..Len(headers)} |-> <<>>]

\* App._cache_headers: what it leaves in cached_headers and headers_samples
\* and whether it raised.
CacheHeaders(file, headers, samples) ==
    IF ~file.exists \/ file.header.bad
    THEN [ok |-> FALSE, headers |-> headers, samples |-> samples]
    ELSE LET read == ReadRows(file.header.cells, file.rows, 0, NewSamples(file.header.cells))
         IN IF read.ok
            THEN [ok |-> TRUE, headers |-> file.header.cells, samples |-> read.samples]
            ELSE [ok |-> FALSE, headers |-> file.header.cells, samples |-> samples]

\* App._pick_file("market" | "lot") with one of files chosen in the dialog
PickFileFrom(files) ==
    \E file \in files :
      \E res \in {CacheHeaders(file, cached_headers, headers_samples)} :
        \E kind \in {"market", "lot"} :
            /\ version = "v041"
            /\ market_csv_path' = IF kind = "market" THEN ChosenPath ELSE market_csv_path
            /\ lot_csv_path' = IF kind = "lot" THEN ChosenPath ELSE lot_csv_path
            /\ cached_headers' = res.headers
            /\ headers_samples' = res.samples
            /\ lastFile' = IF res.ok THEN file ELSE NoFile
            /\ msgs' = IF res.ok THEN <<>> ELSE <<"Header Cache Error">>
            /\ lastOp' = Op(IF res.ok THEN "pick" ELSE "pick_failed", None)
            /\ UNCHANGED <<sideVars, version, presetVars, mapperVars>>

PickFile == PickFileFrom(CsvFiles)

\* App._pick_file with the dialog cancelled: "if not path: return"
CancelPick ==
    /\ version = "v041"
    /\ msgs' = <<>>
    /\ lastOp' = Op("pick_cancel", None)
    /\ UNCHANGED <<sideVars, version, presetVars, csvVars, mapperVars>>

InitHeaders ==
    /\ InitPresets
    /\ version = "v041"

NextHeaders ==
    \/ PickFile
    \/ CancelPick

SpecHeaders == InitHeaders /\ [][NextHeaders]_vars

---------------------------------------------------------------------------
(* Header mapping editor (v041) *)

\* The first subject field and the first adjustment field of
\* BASE_SUBJECT_FIELDS + BASE_ADJ_FIELDS.
MapFields == {"GLA (sf)", "GLA $/sf"}

\* The most rows the custom-field list of the editor gets in the model.
MaxCustomRows == 2

\* str.lower(), on the letters the model's texts use.
LowerChar(c) ==
    CASE c = "A" -> "a"
      [] c = "B" -> "b"
      [] c = "P" -> "p"
      [] OTHER -> c

Lower(s) == [i \in 1..Len(s) |-> LowerChar(s[i])]

\* "sub in s"
Contains(sub, s) == \E i \in 0..(Len(s) - Len(sub)) : SubSeq(s, i + 1, i + Len(sub)) = sub

\* Mutant of TypeaheadValues: no fall-back to the full list.
TypeaheadValuesNoFallback(text, headers, values) ==
    IF headers = <<>> THEN values
    ELSE IF Strip(text) # EmptyText
         THEN SelectSeq(headers, LAMBDA h : Contains(Lower(Strip(text)), Lower(h)))
         ELSE headers

\* App._typeahead_and_preview: the list left in combo["values"].
TypeaheadValues(text, headers, values) ==
    LET typed == Strip(text)
        filtered == SelectSeq(headers, LAMBDA h : Contains(Lower(typed), Lower(h)))
    IN IF headers = <<>> THEN values
       ELSE IF typed # EmptyText
            THEN (IF filtered # <<>> THEN filtered ELSE headers)
            ELSE headers

\* save_all: final_map[field] = combo.get().strip()
FinalMap(widgets) == [f \in DOMAIN widgets |-> Strip(widgets[f])]

\* Mutant of NewCustomFields: the name is tested before it is trimmed.
NewCustomFieldsUntrimmedTest(rows) ==
    LET kept == SelectSeq(rows, LAMBDA r : r.name # EmptyText)
    IN [i \in 1..Len(kept) |->
           [name |-> Strip(kept[i].name), header |-> Strip(kept[i].header)]]

\* save_all: the rows whose trimmed name is non-empty, as {"name", "header"}
NewCustomFields(rows) ==
    LET kept == SelectSeq(rows, LAMBDA r : Strip(r.name) # EmptyText)
    IN [i \in 1..Len(kept) |->
           [name |-> Strip(kept[i].name), header |-> Strip(kept[i].header)]]

\* What the user types into a base combobox.
ComboInputs == {<<>>, <<" ", "a">>}

\* What the user types into custom row i: a blank name with a header chosen,
\* or a name (that of the row's position) with no header.
RowInputs(i) ==
    { [name |-> <<" ">>, header |-> <<"b">>],
      [name |-> <<"P", DigitChar[i]>>, header |-> <<>>] }

\* App._open_header_mapper
OpenHeaderMapper ==
    /\ version = "v041"
    /\ IF cached_headers = <<>>
       THEN /\ msgs' = <<"No headers">>
            /\ lastOp' = Op("open_refused", None)
            /\ UNCHANGED mapperVars
       ELSE /\ mapper_open' = TRUE
            /\ mapper_widgets' = [f \in MapFields |-> DictGet(headers_map, f, EmptyText)]
            /\ combo_values' = [f \in MapFields |-> cached_headers]
            /\ custom_widgets' =
                   [i \in 1..Len(custom_fields) |->
                       [name |-> DictGet(custom_fields[i], "name", EmptyText),
                        header |-> DictGet(custom_fields[i], "header", EmptyText)]]
            /\ msgs' = <<>>
            /\ lastOp' = Op("open", None)
            /\ UNCHANGED <<headers_map, custom_fields, headers_map_file, custom_fields_file>>
    /\ UNCHANGED <<sideVars, version, presetVars, csvVars>>

\* A key is released in the combobox of a base field after the user made its
\* text one of inputs: App._typeahead_and_preview.
TypeComboFrom(inputs) ==
    \E f \in MapFields, t \in inputs :
        /\ mapper_open
        /\ mapper_widgets' = [mapper_widgets EXCEPT ![f] = t]
        /\ combo_values' = [combo_values EXCEPT ![f] = TypeaheadValues(t, cached_headers, @)]
        /\ msgs' = <<>>
        /\ lastOp' = Op("type_combo", f)
        /\ UNCHANGED <<sideVars, version, presetVars, csvVars, headers_map, custom_fields,
                       headers_map_file, custom_fields_file, mapper_open, custom_widgets>>

TypeCombo == TypeComboFrom(ComboInputs)

\* add_custom_field
AddCustomField ==
    /\ mapper_open
    /\ Len(custom_widgets) < MaxCustomRows
    /\ custom_widgets' = Append(custom_widgets, [name |-> EmptyText, header |-> EmptyText])
    /\ msgs' = <<>>
    /\ lastOp' = Op("add_custom", None)
    /\ UNCHANGED <<sideVars, version, presetVars, csvVars, headers_map, custom_fields,
                   headers_map_file, custom_fields_file, mapper_open, mapper_widgets,
                   combo_values>>

\* remove_custom_field
RemoveCustomField ==
    /\ mapper_open
    /\ custom_widgets' = IF custom_widgets = <<>> THEN custom_widgets
                         ELSE SubSeq(custom_widgets, 1, Len(custom_widgets) - 1)
    /\ msgs' = <<>>
    /\ lastOp' = Op("remove_custom", None)
    /\ UNCHANGED <<sideVars, version, presetVars, csvVars, headers_map, custom_fields,
                   headers_map_file, custom_fields_file, mapper_open, mapper_widgets,
                   combo_values>>

\* The user fills the name entry and the header combobox of a custom row
\* (no handler is bound to them).
TypeCustomRow ==
    \E i \in 1..Len(custom_widgets) : \E row \in RowInputs(i) :
        /\ mapper_open
        /\ custom_widgets[i] # row
        /\ custom_widgets' = [custom_widgets EXCEPT ![i] = row]
        /\ msgs' = <<>>
        /\ lastOp' = Op("type_custom", None)
        /\ UNCHANGED <<sideVars, version, presetVars, csvVars, headers_map, custom_fields,
                       headers_map_file, custom_fields_file, mapper_open, mapper_widgets,
                       combo_values>>

\* save_all ("Save All" of the editor)
SaveAll ==
    \E w1 \in EditorWriteOutcomes(headers_map_file, FinalMap(mapper_widgets)) :
    \E w2 \in EditorWriteOutcomes(custom_fields_file, NewCustomFields(custom_widgets)) :
        /\ mapper_open
        /\ headers_map_file' = w1.file
        /\ headers_map' = FinalMap(mapper_widgets)
        /\ custom_fields_file' = w2.file
        /\ custom_fields' = NewCustomFields(custom_widgets)
        /\ msgs' = save_msgs(version, w1.ok) \o save_msgs(version, w2.ok) \o <<"Saved">>
        /\ mapper_open' = FALSE
        /\ lastOp' = Op("save_all", None)
        /\ UNCHANGED <<sideVars, version, presetVars, csvVars, mapper_widgets, combo_values,
                       custom_widgets>>

\* The editor window is closed without "Save All".
CloseMapper ==
    /\ mapper_open
    /\ mapper_open' = FALSE
    /\ mapper_widgets' = EmptyDict
    /\ combo_values' = EmptyDict
    /\ custom_widgets' = <<>>
    /\ msgs' = <<>>
    /\ lastOp' = Op("close", None)
    /\ UNCHANGED <<sideVars, version, presetVars, csvVars, headers_map, custom_fields,
                   headers_map_file, custom_fields_file>>

\* A CSV of two columns and one data row.
MapperCsv == [exists |-> TRUE, header |-> GoodLine(<<HeaderA, HeaderB>>),
              rows |-> <<DataLine(1, 2)>>]

\* First run of v041 after MapperCsv was chosen as the market file.
InitMapper ==
    /\ version = "v041"
    /\ presets_file = AbsentFile
    /\ presets = load_json(presets_file, DefaultPresets)
    /\ active_preset = None
    /\ adjustment_entries = [f \in AdjFields |-> EmptyText]
    /\ trip = [stage |-> "none", name |-> None, entries |-> [f \in AdjFields |-> EmptyText]]
    /\ market_csv_path = ChosenPath
    /\ lot_csv_path = None
    /\ cached_headers = CacheHeaders(MapperCsv, <<>>, EmptyDict).headers
    /\ headers_samples = CacheHeaders(MapperCsv, <<>>, EmptyDict).samples
    /\ lastFile = MapperCsv
    /\ headers_map_file = AbsentFile
    /\ custom_fields_file = AbsentFile
    /\ headers_map = load_json(headers_map_file, EmptyDict)
    /\ custom_fields = load_json(custom_fields_file, <<>>)
    /\ mapper_open = FALSE
    /\ mapper_widgets = EmptyDict
    /\ combo_values = EmptyDict
    /\ custom_widgets = <<>>
    /\ msgs = <<>>
    /\ lastOp = Op("pick", None)
    /\ store = IdleStore
    /\ peer = NoPeer

NextMapper ==
    \/ OpenHeaderMapper
    \/ TypeCombo
    \/ AddCustomField
    \/ RemoveCustomField
    \/ TypeCustomRow
    \/ SaveAll
    \/ CloseMapper

SpecMapper == InitMapper /\ [][NextMapper]_vars

---------------------------------------------------------------------------
(* The editor over a custom-field list the program finds on disk (v041) *)

\* A custom field as custom_fields.json holds it, without and with the
\* optional "adj_label" that _build_subject_adjustments_grid reads.
CustomField(name, header) == [name |-> name, header |-> header]
LabelledField(name, header, label) == [name |-> name, header |-> header, adj_label |-> label]

\* What custom_fields.json can hold when the program starts: nothing, one
\* field, one field with a label, a labelled field followed by a bound one.
CustomFieldsFileContents ==
    { AbsentFile,
      JsonFile(<<CustomField(<<"P", "1">>, EmptyText)>>),
      JsonFile(<<LabelledField(<<"P", "1">>, EmptyText, <<"L">>)>>),
      JsonFile(<<LabelledField(<<"P", "1">>, EmptyText, <<"L">>),
                 CustomField(<<"P", "2">>, HeaderB)>>) }

\* The user, or another program, replaces custom_fields.json.
EditCustomFieldsFile ==
    \E file \in CustomFieldsFileContents :
        /\ custom_fields_file # file
        /\ custom_fields_file' = file
        /\ msgs' = <<>>
        /\ lastOp' = Op("edit_file", None)
        /\ UNCHANGED <<sideVars, version, presetVars, csvVars, headers_map, custom_fields,
                       headers_map_file, mapper_open, mapper_widgets, combo_values,
                       custom_widgets>>

PickMapperCsv == PickFileFrom({MapperCsv})

InitCustom == InitHeaders

NextCustom ==
    \/ EditCustomFieldsFile
    \/ Restart
    \/ PickMapperCsv
    \/ OpenHeaderMapper
    \/ AddCustomField
    \/ RemoveCustomField
    \/ TypeCustomRow
    \/ SaveAll
    \/ CloseMapper

SpecCustom == InitCustom /\ [][NextCustom]_vars

---------------------------------------------------------------------------
(* The preset manager next to file selection and the editor *)

\* The user types an amount into the first adjustment entry, or empties it.
TypeAmount == TypeAdjustmentIn({"GLA $/sf"}, {EmptyText, <<"5">>})

InitFrame == InitPresets

NextFrame ==
    \/ TypeAmount
    \/ ApplyPreset
    \/ SavePreset
    \/ ClearAdjustments
    \/ ClearAll
    \/ PickMapperCsv
    \/ OpenHeaderMapper
    \/ SaveAll

SpecFrame == InitFrame /\ [][NextFrame]_vars

---------------------------------------------------------------------------
(* Two running instances of the program over one presets.json *)

\* The memory of an instance: its presets, active preset and entries, and
\* (history) the preset it had just written to disk when it was left.
Instance(p, a, e, written) ==
    [running |-> TRUE, presets |-> p, active_preset |-> a, adjustment_entries |-> e,
     last_saved |-> written]

\* A second instance is started: module start-up / App.__init__ load the
\* presets document once.
StartPeer ==
    /\ ~peer.running
    /\ peer' = Instance(load_json(presets_file, DefaultPresets), None,
                        ClearedEntries(adjustment_entries), None)
    /\ msgs' = <<>>
    /\ lastOp' = Op("start_peer", None)
    /\ trip' = NoTrip
    /\ UNCHANGED <<store, version, presets, presets_file, active_preset, adjustment_entries,
                   csvVars, mapperVars>>

\* The user turns to the other instance: from now on its handlers run, on
\* its memory; the file is shared.
SwitchProcess ==
    /\ peer.running
    /\ presets' = peer.presets
    /\ active_preset' = peer.active_preset
    /\ adjustment_entries' = peer.adjustment_entries
    /\ peer' = Instance(presets, active_preset, adjustment_entries,
                        IF trip.stage = "saved" THEN trip.name ELSE None)
    /\ msgs' = <<>>
    /\ lastOp' = Op("switch", None)
    /\ UNCHANGED <<store, version, presets_file, trip, csvVars, mapperVars>>

InitPeers == InitPresets

NextPeers ==
    \/ StartPeer
    \/ SwitchProcess
    \/ TypeAmount
    \/ ApplyPreset
    \/ SavePreset

SpecPeers == InitPeers /\ [][NextPeers]_vars

---------------------------------------------------------------------------
(* Type-ahead in the header mapping editor (v041) *)

\* What the user types into a base combobox while looking for a header:
\* nothing, a blank, a padded lower-case letter of HeaderA, an upper-case
\* letter of both headers, a letter of no header, a whole header.
FilterInputs == {<<>>, <<" ">>, <<" ", "a">>, <<"B">>, <<"x">>, <<"A", "b">>}

\* CSV files of each header row and no data rows, and a file that is missing.
FilterFiles ==
    {MissingFile} \cup {[exists |-> TRUE, header |-> GoodLine(h), rows |-> <<>>] : h \in HeaderRows}

PickFilterFile == PickFileFrom(FilterFiles)

TypeAhead == TypeComboFrom(FilterInputs)

InitFilter == InitHeaders

NextFilter ==
    \/ PickFilterFile
    \/ OpenHeaderMapper
    \/ TypeAhead
    \/ CloseMapper

SpecFilter == InitFilter /\ [][NextFilter]_vars

---------------------------------------------------------------------------
(* Persisted documents as JSON text: json.dump and json.load *)

\* Python values as json.load builds them and json.dump reads them: a str, a
\* list (PyList) and a dict whose keys are texts.
PyStr(chars) == [py_str |-> chars]
PyDict(d) == [py_dict |-> d]

IsPyStr(v) == "py_str" \in DOMAIN v
IsPyList(v) == "py_list" \in DOMAIN v

Quote == "\""
Backslash == "\\"
Newline == "\n"

\* One character outside ASCII: the right single quotation mark U+2019 of
\* DEFAULT_HELP.
NonAscii == "U+2019"

JsonWhitespace == {" ", Newline}

RECURSIVE Concat(_)
Concat(seqs) == IF seqs = <<>> THEN <<>> ELSE Head(seqs) \o Concat(Tail(seqs))

\* Mutant of EscapeChar: a character is written as it is.
EscapeCharVerbatim(c) == <<c>>

\* json.dump (ensure_ascii=True): how one character of a str is written.
EscapeChar(c) ==
    CASE c = Quote -> <<Backslash, Quote>>
      [] c = Backslash -> <<Backslash, Backslash>>
      [] c = Newline -> <<Backslash, "n">>
      [] c = NonAscii -> <<Backslash, "u", "2", "0", "1", "9">>
      [] OTHER -> <<c>>

EncodeString(chars) ==
    <<Quote>> \o Concat([i \in 1..Len(chars) |-> EscapeChar(chars[i])]) \o <<Quote>>

\* The items of a list or the members of a dict as json.dump(indent=2) lays
\* them out: one per line, "," between (the indentation blanks are left out).
JoinItems(seqs) ==
    IF seqs = <<>> THEN <<>>
    ELSE <<Newline>> \o Head(seqs)
         \o Concat([i \in 1..(Len(seqs) - 1) |-> <<",", Newline>> \o seqs[i + 1]])
         \o <<Newline>>

\* The keys of a dict in the order json.dump meets them (some order).
KeyOrder(keys) ==
    CHOOSE q \in [1..Cardinality(keys) -> keys] :
        \A i, j \in 1..Cardinality(keys) : i # j => q[i] # q[j]

\* json.dumps(v, indent=2)
RECURSIVE json_dumps(_)
json_dumps(v) ==
    IF IsPyStr(v) THEN EncodeString(v.py_str)
    ELSE IF IsPyList(v)
    THEN <<"[">> \o JoinItems([i \in 1..Len(v.py_list) |-> json_dumps(v.py_list[i])]) \o <<"]">>
    ELSE LET keys == KeyOrder(DOMAIN v.py_dict)
         IN <<"{">>
            \o JoinItems([i \in 1..Len(keys) |->
                   EncodeString(keys[i]) \o <<":", " ">> \o json_dumps(v.py_dict[keys[i]])])
            \o <<"}">>

\* Result of a parsing step: failure (json.JSONDecodeError), or the value
\* read and the position after it.
Fail == [ok |-> FALSE]
Done(val, pos) == [ok |-> TRUE, val |-> val, pos |-> pos]

RECURSIVE SkipWs(_, _)
SkipWs(t, i) == IF i <= Len(t) /\ t[i] \in JsonWhitespace THEN SkipWs(t, i + 1) ELSE i

\* json.decoder.scanstring from the character after the opening quote: an
\* escape is turned back into its character; a raw control character and an
\* unknown escape are errors.
RECURSIVE ScanString(_, _, _)
ScanString(t, i, acc) ==
    IF i > Len(t) THEN Fail
    ELSE IF t[i] = Quote THEN Done(acc, i + 1)
    ELSE IF t[i] = Newline THEN Fail
    ELSE IF t[i] # Backslash THEN ScanString(t, i + 1, Append(acc, t[i]))
    ELSE IF i + 1 > Len(t) THEN Fail
    ELSE IF t[i + 1] \in {Quote, Backslash} THEN ScanString(t, i + 2, Append(acc, t[i + 1]))
    ELSE IF t[i + 1] = "n" THEN ScanString(t, i + 2, Append(acc, Newline))
    ELSE IF t[i + 1] = "u" /\ i + 5 <= Len(t) /\ SubSeq(t, i + 2, i + 5) = <<"2", "0", "1", "9">>
         THEN ScanString(t, i + 6, Append(acc, NonAscii))
    ELSE Fail

\* json.load: a value, the items of an array after "[", the members of an
\* object after "{".  A repeated key keeps its last value.
RECURSIVE ParseValue(_, _), ParseItems(_, _, _), ParseMembers(_, _, _)
ParseValue(t, from) ==
    LET i == SkipWs(t, from)
    IN IF i > Len(t) THEN Fail
       ELSE IF t[i] = Quote
       THEN LET r == ScanString(t, i + 1, <<>>)
            IN IF r.ok THEN Done(PyStr(r.val), r.pos) ELSE Fail
       ELSE IF t[i] = "["
       THEN LET j == SkipWs(t, i + 1)
            IN IF j <= Len(t) /\ t[j] = "]" THEN Done(PyList(<<>>), j + 1)
               ELSE ParseItems(t, j, <<>>)
       ELSE IF t[i] = "{"
       THEN LET j == SkipWs(t, i + 1)
            IN IF j <= Len(t) /\ t[j] = "}" THEN Done(PyDict(EmptyDict), j + 1)
               ELSE ParseMembers(t, j, EmptyDict)
       ELSE Fail

ParseItems(t, i, acc) ==
    LET r == ParseValue(t, i)
    IN IF ~r.ok THEN Fail
       ELSE LET j == SkipWs(t, r.pos)
            IN IF j > Len(t) THEN Fail
               ELSE IF t[j] = "," THEN ParseItems(t, j + 1, Append(acc, r.val))
               ELSE IF t[j] = "]" THEN Done(PyList(Append(acc, r.val)), j + 1)
               ELSE Fail

ParseMembers(t, from, acc) ==
    LET i == SkipWs(t, from)
    IN IF i > Len(t) \/ t[i] # Quote THEN Fail
       ELSE LET k == ScanString(t, i + 1, <<>>)
            IN IF ~k.ok THEN Fail
               ELSE LET c == SkipWs(t, k.pos)
                    IN IF c > Len(t) \/ t[c] # ":" THEN Fail
                       ELSE LET r == ParseValue(t, c + 1)
                            IN IF ~r.ok THEN Fail
                               ELSE LET j == SkipWs(t, r.pos)
                                    IN IF j > Len(t) THEN Fail
                                       ELSE IF t[j] = ","
                                       THEN ParseMembers(t, j + 1, DictSet(acc, k.val, r.val))
                                       ELSE IF t[j] = "}"
                                       THEN Done(PyDict(DictSet(acc, k.val, r.val)), j + 1)
                                       ELSE Fail

\* json.loads: one value and nothing but whitespace after it.
json_loads(t) ==
    LET r == ParseValue(t, 1)
    IN IF r.ok /\ SkipWs(t, r.pos) = Len(t) + 1 THEN r ELSE Fail

---------------------------------------------------------------------------
(* The persistence store on JSON text: save_json / load_json, save_presets /
   load_presets *)

DocTypes == {"presets", "headers_map", "custom_fields", "help_content"}

KeyQ1 == <<"Q", "1">>
KeyQ2 == <<"Q", "2">>
KeyGLA == <<"G", "L", "A">>
KeyName == <<"n", "a", "m", "e">>
KeyHeader == <<"h", "e", "a", "d", "e", "r">>
KeyGeneral == <<"g", "e", "n", "e", "r", "a", "l">>
KeyFiles == <<"f", "i", "l", "e", "s">>

\* Texts a document can hold: none, an amount, text with a quote and a
\* backslash, text with a line break and a character outside ASCII.
StoreTexts == {<<>>, <<"5">>, <<Quote, "a", Backslash>>, <<"a", Newline, NonAscii>>}

CustomRow(name, header) ==
    PyDict([k \in {KeyName, KeyHeader} |-> PyStr(IF k = KeyName THEN name ELSE header)])

HelpDoc(general, files) ==
    PyDict([k \in {KeyGeneral, KeyFiles} |-> PyStr(IF k = KeyGeneral THEN general ELSE files)])

\* The default each caller hands to load_json / the default of load_presets.
DefaultDoc(type) ==
    CASE type = "presets" -> PyDict([k \in {KeyQ1, KeyQ2} |-> PyDict(EmptyDict)])
      [] type = "headers_map" -> PyDict(EmptyDict)
      [] type = "custom_fields" -> PyList(<<>>)
      [] type = "help_content" -> HelpDoc(<<"a", Newline, NonAscii>>, <<"5">>)

\* Documents the program can hold in memory when it saves.
DocsOf(type) ==
    CASE type = "presets" ->
             {DefaultDoc(type)} \cup
             {PyDict([k \in {KeyQ1, KeyQ2} |->
                         IF k = KeyQ1 THEN PyDict([f \in {KeyGLA} |-> PyStr(t)])
                         ELSE PyDict(EmptyDict)]) : t \in StoreTexts}
      [] type = "headers_map" ->
             {DefaultDoc(type)} \cup {PyDict([f \in {KeyGLA} |-> PyStr(t)]) : t \in StoreTexts}
      [] type = "custom_fields" ->
             {DefaultDoc(type)} \cup {PyList(<<CustomRow(t, <<>>)>>) : t \in StoreTexts}
             \cup {PyList(<<CustomRow(t, <<"5">>), CustomRow(<<"5">>, t)>>) : t \in StoreTexts}
      [] type = "help_content" ->
             {DefaultDoc(type)} \cup {HelpDoc(t, <<"5">>) : t \in StoreTexts}

\* A file as its text.
NoTextFile == [exists |-> FALSE, text |-> <<>>]
TextFile(text) == [exists |-> TRUE, text |-> text]

\* Texts written by hand: not JSON, an empty array with a blank, an object
\* with a key twice, a lone string.
HandWritten ==
    { <<"{">>,
      <<"[", " ", "]">>,
      <<"{", Quote, "a", Quote, ":", " ", Quote, "1", Quote, ",", " ",
             Quote, "a", Quote, ":", Quote, "5", Quote, "}">>,
      <<Quote, "a", Quote>> }

\* What the file of a document type can hold before the program touches it.
FilesOf(type) ==
    {NoTextFile} \cup {TextFile(x) : x \in HandWritten}
    \cup {TextFile(json_dumps(d)) : d \in DocsOf(type)}

\* load_json / load_presets on the text of the file
LoadDocument(file, default) ==
    IF ~file.exists THEN default
    ELSE LET r == json_loads(file.text)
         IN IF r.ok THEN r.val ELSE default

\* save_json / save_presets on the text of the file: written, not opened,
\* or failed after open(path, "w") emptied the file.
SaveOutcomes(file, data) ==
    { [ok |-> TRUE,  file |-> TextFile(json_dumps(data))],
      [ok |-> FALSE, file |-> file],
      [ok |-> FALSE, file |-> TextFile(<<>>)] }

\* The most entries of the history of loads and saves that are kept.
LogLen == 3

Logged(log, entry) ==
    LET all == Append(log, entry)
    IN IF Len(all) > LogLen THEN SubSeq(all, Len(all) - LogLen + 1, Len(all)) ELSE all

\* The program reads the document: load_json(path, default)
StoreLoad ==
    /\ store.type # "none"
    /\ \E doc \in {LoadDocument(store.file, DefaultDoc(store.type))} :
           store' = [store EXCEPT !.mem = doc,
                                  !.log = Logged(@, [op |-> "load", ok |-> TRUE, val |-> doc])]
    /\ msgs' = <<>>
    /\ lastOp' = Op("load", None)
    /\ UNCHANGED <<version, presetVars, csvVars, mapperVars, peer>>

\* The program writes the document it holds: save_json(path, data)
StoreSave ==
    /\ store.type # "none"
    /\ \E w \in SaveOutcomes(store.file, store.mem) :
           /\ store' = [store EXCEPT !.file = w.file,
                                     !.log = Logged(@, [op |-> "save", ok |-> w.ok, val |-> store.mem])]
           /\ msgs' = save_msgs(version, w.ok)
    /\ lastOp' = Op("store_save", None)
    /\ UNCHANGED <<version, presetVars, csvVars, mapperVars, peer>>

\* A document of some type is in memory and its file holds some text.
\* stage2 persists presets only.
InitStore ==
    /\ InitProgram
    /\ peer = NoPeer
    /\ \E type \in DocTypes : \E doc \in DocsOf(type) : \E file \in FilesOf(type) :
           /\ version = "stage2" => type = "presets"
           /\ store = [type |-> type, mem |-> doc, file |-> file, log |-> <<>>]

NextStore ==
    \/ StoreLoad
    \/ StoreSave

SpecStore == InitStore /\ [][NextStore]_vars

---------------------------------------------------------------------------
(* Claims about the preset manager, checked under SpecPresets *)

SaveOps == {"save", "save_failed", "save_none"}
ClearOps == {"clear_adjustments", "clear_all"}

\* The fields of entries whose text is non-empty after trimming.
NonBlank(entries) == {f \in DOMAIN entries : Strip(entries[f]) # EmptyText}

\* C1: in each version, right after a preset save performed while preset n
\* is active, the PresetSet stored for n holds exactly the adjustment
\* fields that are non-empty after trimming (a blank or whitespace-only
\* field is absent), each with its text; a save that was written leaves the
\* same in the persisted presets document.
C1_SaveStoresNonBlankFields ==
    lastOp.op \in {"save", "save_failed"} =>
        /\ lastOp.name \in DOMAIN presets
        /\ DOMAIN presets[lastOp.name] = NonBlank(adjustment_entries)
        /\ \A f \in NonBlank(adjustment_entries) :
               Strip(presets[lastOp.name][f]) = Strip(adjustment_entries[f])
        /\ lastOp.op = "save" => presets_file = JsonFile(presets)

\* C2: a save (written to disk) of the entries s while n is active, then a
\* restart, then apply(n) shows every field of s that is non-empty after
\* trimming with its text, and leaves every other adjustment field empty.
C2_SaveRestartApplyRoundTrip ==
    trip.stage = "applied" =>
        \A f \in AdjFields :
            IF f \in NonBlank(trip.entries)
            THEN Strip(adjustment_entries[f]) = Strip(trip.entries[f])
            ELSE adjustment_entries[f] = EmptyText

\* C3: apply is fully replacing: right after apply(m), whatever the entries
\* held before, every adjustment field absent from the PresetSet stored for
\* m is empty and every field present in it shows the stored value.
C3_ApplyReplacesAllFields ==
    lastOp.op = "apply" =>
        /\ active_preset = lastOp.name
        /\ \A f \in AdjFields :
               adjustment_entries[f] =
                   IF f \in DOMAIN DictGet(presets, lastOp.name, EmptyDict)
                   THEN presets[lastOp.name][f] ELSE EmptyText

\* Witness of C3: an apply has emptied an entry that held text which the
\* applied preset does not store, and filled another from the preset.
C3_Witness ==
    /\ lastOp.op = "apply"
    /\ lastOp.stale # {}
    /\ \E f \in AdjFields : Strip(adjustment_entries[f]) # EmptyText

\* C4: in each version, after "Clear Adjustments" or "Clear / Reset All" no
\* preset is active, and a preset save issued next is treated as "no preset
\* selected" and writes nothing.
C4_ClearLeavesNoActivePreset ==
    [][lastOp.op \in ClearOps =>
          /\ active_preset = None
          /\ lastOp'.op \in SaveOps =>
                 /\ lastOp'.op = "save_none"
                 /\ UNCHANGED <<presets, presets_file>>]_vars

\* C5: a preset save requested while no preset is active only shows the
\* "no preset selected" message: the presets in memory, the persisted
\* presets document, the active preset and the adjustment entries are
\* unchanged.
C5_SaveWithoutPresetChangesNothing ==
    [][(active_preset = None /\ lastOp'.op \in SaveOps) =>
          /\ UNCHANGED <<presets, presets_file, active_preset, adjustment_entries>>
          /\ msgs' \in {<<"No preset selected">>, <<"Save Preset">>}]_vars

\* Witness of C5: a save was refused while presets were stored, a document
\* was persisted and an entry held text.
C5_Witness ==
    /\ lastOp.op = "save_none"
    /\ active_preset = None
    /\ presets # DefaultPresets
    /\ presets_file.kind = "json"
    /\ \E f \in AdjFields : adjustment_entries[f] # EmptyText

---------------------------------------------------------------------------
(* Claims about the CSV header cache, checked under SpecHeaders *)

\* The data rows of a file: the cells of its non-blank lines, in file order.
DataRows(file) ==
    LET good == SelectSeq(file.rows, LAMBDA l : l.cells # <<>>)
    IN [i \in 1..Len(good) |-> good[i].cells]

MinOf(a, b) == IF a <= b THEN a ELSE b

\* C6: when reading a CSV's headers fails at any point (the file cannot be
\* opened, the header line or a sample line cannot be read or parsed), an
\* error is reported and CachedHeaders and HeaderSamples are exactly what
\* they were before the call.
C6_FailedReadKeepsCache ==
    [][lastOp'.op = "pick_failed" =>
          /\ msgs' = <<"Header Cache Error">>
          /\ UNCHANGED <<cached_headers, headers_samples>>]_vars

\* C7: a successful header read of a CSV with r data rows records, for every
\* column name, exactly min(r, 3) samples; the i-th sample is the cell the
\* i-th data row has in a column of that name, and the empty string when the
\* row is too short to have it.
C7_SamplesAlignedWithRows ==
    lastOp.op = "pick" =>
        LET names == lastFile.header.cells
            data == DataRows(lastFile)
            n == MinOf(Len(data), 3)
        IN /\ cached_headers = names
           /\ \A c \in 1..Len(names) :
                  /\ names[c] \in DOMAIN headers_samples
                  /\ Len(headers_samples[names[c]]) = n
                  /\ \A i \in 1..n :
                         headers_samples[names[c]][i] \in
                             {data[i][j] : j \in {k \in 1..Len(data[i]) : names[k] = names[c]}}
                             \cup (IF \E k \in (Len(data[i]) + 1)..Len(names) : names[k] = names[c]
                                   THEN {EmptyText} ELSE {})
           /\ \A c \in 1..Len(names) : \A i \in 1..n :
                  (\A k \in 1..Len(names) : k # c => names[k] # names[c]) =>
                      headers_samples[names[c]][i] =
                          IF c <= Len(data[i]) THEN data[i][c] ELSE EmptyText

\* Witness of C7: a file of two distinct columns and more than three data
\* rows, one of the first three a short row, was read successfully.
C7_Witness ==
    /\ lastOp.op = "pick"
    /\ lastFile.header.cells = <<HeaderA, HeaderB>>
    /\ Len(DataRows(lastFile)) > 3
    /\ \E i \in 1..3 : Len(DataRows(lastFile)[i]) = 1
    /\ \E i \in 1..3 : headers_samples[HeaderB][i] = EmptyText
    /\ \E i \in 1..3 : headers_samples[HeaderB][i] # EmptyText

---------------------------------------------------------------------------
(* Claims about the header mapping editor, checked under SpecMapper *)

SaveErrorShown(m) == \E i \in 1..Len(m) : m[i] = "Save Error"

\* The k-th smallest member of a set of indices.
NthOf(idx, k) == CHOOSE i \in idx : Cardinality({j \in idx : j <= i}) = k

\* C8: the commit of the editor is atomic: when the save of the header
\* mapping or the save of the custom-field list fails, the error is reported
\* and the live header mapping and the live custom-field list keep the
\* values they had before the commit.
C8_FailedCommitKeepsLiveState ==
    [][(lastOp'.op = "save_all" /\ SaveErrorShown(msgs')) =>
          UNCHANGED <<headers_map, custom_fields>>]_vars

\* C9: right after a commit the header mapping holds, for every logical
\* field of the editor, the text of its combobox trimmed of surrounding
\* whitespace (the empty text when unmapped); the custom-field list holds
\* exactly the rows whose name is non-empty after trimming, in row order,
\* each with its name and its (possibly empty) header; and when no save
\* error was shown both persisted documents hold the same.
C9_CommitTrimsAndFiltersRows ==
    lastOp.op = "save_all" =>
        LET keptIdx == {i \in 1..Len(custom_widgets) :
                            Strip(custom_widgets[i].name) # EmptyText}
        IN /\ DOMAIN headers_map = MapFields
           /\ \A f \in MapFields : headers_map[f] = Strip(mapper_widgets[f])
           /\ Len(custom_fields) = Cardinality(keptIdx)
           /\ \A k \in 1..Len(custom_fields) :
                  /\ custom_fields[k].name = Strip(custom_widgets[NthOf(keptIdx, k)].name)
                  /\ custom_fields[k].header = Strip(custom_widgets[NthOf(keptIdx, k)].header)
           /\ ~SaveErrorShown(msgs) =>
                  /\ headers_map_file = JsonFile(headers_map)
                  /\ custom_fields_file = JsonFile(custom_fields)

\* Witness of C9: a commit of a padded combobox text, a blank-named row with
\* a header chosen and, after it, a named row with no header.
C9_Witness ==
    /\ lastOp.op = "save_all"
    /\ \E f \in MapFields : mapper_widgets[f] = <<" ", "a">> /\ headers_map[f] = <<"a">>
    /\ \E f \in MapFields : mapper_widgets[f] = EmptyText /\ headers_map[f] = EmptyText
    /\ Len(custom_widgets) = 2
    /\ custom_widgets[1] = [name |-> <<" ">>, header |-> <<"b">>]
    /\ custom_widgets[2] = [name |-> <<"P", "2">>, header |-> EmptyText]
    /\ custom_fields = <<[name |-> <<"P", "2">>, header |-> EmptyText]>>

---------------------------------------------------------------------------
(* Claims about type-ahead, checked under SpecFilter *)

\* The headers that contain text as a case-insensitive substring, in the
\* order of headers.
Matching(text, headers) ==
    LET hits == {i \in 1..Len(headers) : Contains(Lower(text), Lower(headers[i]))}
    IN [k \in 1..Cardinality(hits) |-> headers[NthOf(hits, k)]]

\* C10 as stated: with CachedHeaders non-empty, the suggestion list after a
\* key release is the headers that contain the typed text as a
\* case-insensitive substring, in CachedHeaders order, and the full
\* CachedHeaders when the typed text is empty or no header matches.
C10_FilterOnTypedText ==
    (lastOp.op = "type_combo" /\ cached_headers # <<>>) =>
        LET text == mapper_widgets[lastOp.name]
        IN combo_values[lastOp.name] =
               IF text = EmptyText \/ Matching(text, cached_headers) = <<>>
               THEN cached_headers
               ELSE Matching(text, cached_headers)

\* C10 (amended): with CachedHeaders non-empty, the suggestion list after a
\* key release is the headers that contain the typed text, trimmed of
\* surrounding whitespace, as a case-insensitive substring, in CachedHeaders
\* order, and the full CachedHeaders when the trimmed text is empty or no
\* header matches; the list is never empty.
C10_FilterOnTrimmedText ==
    (lastOp.op = "type_combo" /\ cached_headers # <<>>) =>
        LET text == Strip(mapper_widgets[lastOp.name])
        IN /\ combo_values[lastOp.name] =
                  IF text = EmptyText \/ Matching(text, cached_headers) = <<>>
                  THEN cached_headers
                  ELSE Matching(text, cached_headers)
           /\ combo_values[lastOp.name] # <<>>

\* Witness of C10: a padded lower-case letter was typed and the list was
\* narrowed to the one header that holds the letter in upper case.
C10_Witness ==
    /\ lastOp.op = "type_combo"
    /\ cached_headers = <<HeaderA, HeaderB>>
    /\ mapper_widgets[lastOp.name] = <<" ", "a">>
    /\ combo_values[lastOp.name] = <<HeaderA>>

---------------------------------------------------------------------------
(* Claims about the persistence store *)

\* Whether a file holds a presets document (a JSON object).
HoldsPresets(file) == file.kind = "json" /\ IsDict(file.doc)

\* C11: load returns the saved document, or the default when the file is
\* absent, unreadable or not of the expected structure: right after
\* start-up the presets are the document of presets.json when it holds a
\* presets document and the default presets otherwise; and no apply or
\* save preset ever fails.
C11_LoadFallsBackToDefault ==
    /\ lastOp.op = "restart" =>
           presets = IF HoldsPresets(presets_file) THEN presets_file.doc ELSE DefaultPresets
    /\ lastOp.op \notin {"apply_raised", "save_raised"}

\* C12: in each version a preset save whose write failed has shown the user
\* a warning about the failure (and has returned normally).
C12_WriteFailureWarned ==
    lastOp.op = "save_failed" => SaveErrorShown(msgs)

\* C13: for every persisted document type, a load that follows a successful
\* save returns the document that was saved, and in a load, successful
\* save, load sequence the second load returns what the first returned.
C13_SaveLoadRoundTrip ==
    /\ \A i \in 1..(Len(store.log) - 1) :
           (store.log[i].op = "save" /\ store.log[i].ok /\ store.log[i + 1].op = "load") =>
               store.log[i + 1].val = store.log[i].val
    /\ \A i \in 1..(Len(store.log) - 2) :
           (/\ store.log[i].op = "load"
            /\ store.log[i + 1].op = "save" /\ store.log[i + 1].ok
            /\ store.log[i + 2].op = "load") =>
               store.log[i + 2].val = store.log[i].val

\* Witness of C13: help content with a line break and a character outside
\* ASCII was loaded, saved and loaded again.
C13_Witness ==
    /\ store.type = "help_content"
    /\ Len(store.log) = 3
    /\ store.log[1].op = "load" /\ store.log[1].val = HelpDoc(<<"a", Newline, NonAscii>>, <<"5">>)
    /\ store.log[2].op = "save" /\ store.log[2].ok
    /\ store.log[3].op = "load" /\ store.log[3].val = store.log[1].val
    /\ store.file.exists /\ store.file.text # <<>>

---------------------------------------------------------------------------
(* Claims about the custom-field list, checked under SpecCustom *)

\* The rows the editor shows for a custom-field list when it opens.
RowsAsOpened(list) ==
    [i \in 1..Len(list) |-> [name |-> DictGet(list[i], "name", EmptyText),
                             header |-> DictGet(list[i], "header", EmptyText)]]

\* C14: a commit made while the rows of the editor are those it opened
\* with, over a list of named custom fields, leaves the live custom-field
\* list with the same entries (name, header and optional adjustment label)
\* in the same order, and so the persisted list when it was written.
C14_CustomFieldsRoundTrip ==
    [][(/\ lastOp'.op = "save_all"
        /\ custom_widgets = RowsAsOpened(custom_fields)
        /\ \A i \in 1..Len(custom_fields) : Strip(custom_fields[i].name) # EmptyText) =>
           /\ custom_fields' = custom_fields
           /\ ~SaveErrorShown(msgs') => custom_fields_file' = JsonFile(custom_fields)]_vars

---------------------------------------------------------------------------
(* Claims about the preset life cycle *)

ApplyOps == {"apply", "apply_raised"}

\* C15: every apply(name) succeeds and leaves name the active preset,
\* whatever was active before; when nothing is stored for name all
\* adjustment entries end up empty.
C15_ApplyAlwaysSucceeds ==
    lastOp.op \in ApplyOps =>
        /\ lastOp.op = "apply"
        /\ active_preset = lastOp.name
        /\ DictGet(presets, lastOp.name, EmptyDict) = EmptyDict =>
               \A f \in AdjFields : adjustment_entries[f] = EmptyText

\* C16: the PresetSet stored for a name changes only in a save made while
\* that name is active, so a save leaves the sets of the other names as
\* they were; and the persisted presets document changes only in a save.
\* Apply, the two clears, file selection and the commit of the editor
\* change neither.
C16_PresetsChangeOnlyBySave ==
    [][/\ \A n \in PresetNames :
              DictGet(presets', n, EmptyDict) # DictGet(presets, n, EmptyDict) =>
                  lastOp'.op \in {"save", "save_failed"} /\ active_preset = n
       /\ presets_file' # presets_file => lastOp'.op \in {"save", "save_failed"}]_vars

\* Witness of C16: in v041, with a CSV chosen and the editor committed, and
\* a set stored for Q2, a save made while Q1 is active has stored another
\* set for Q1.
C16_Witness ==
    /\ lastOp.op = "save"
    /\ active_preset = "Q1"
    /\ cached_headers # <<>>
    /\ DOMAIN headers_map = MapFields
    /\ headers_map_file.kind = "json"
    /\ presets["Q2"] # EmptyDict
    /\ presets["Q1"] # EmptyDict
    /\ presets["Q1"] # presets["Q2"]

---------------------------------------------------------------------------
(* The header cache as a whole, checked under SpecHeaders *)

\* C18: after any sequence of file selections, successful or failed, the
\* keys of headers_samples are the names in cached_headers and every sample
\* list has at most SampleLimit entries.
C18_SamplesDescribeCachedHeaders ==
    /\ DOMAIN headers_samples = {cached_headers[j] : j \in 1..Len(cached_headers)}
    /\ \A h \in DOMAIN headers_samples : Len(headers_samples[h]) <= SampleLimit

\* The part of C18 that the program keeps: no sample list is longer than
\* SampleLimit.
C18_AtMostThreeSamples ==
    \A h \in DOMAIN headers_samples : Len(headers_samples[h]) <= SampleLimit

---------------------------------------------------------------------------
(* Claims about two instances, checked under SpecPeers *)

\* C17: persistence is last-writer-wins: while a second instance runs, a
\* preset save that is written leaves on disk the whole presets document of
\* the saving instance's memory, whatever the other instance had written.
C17_LastWriterWins ==
    [][(peer.running /\ lastOp'.op = "save") => presets_file' = JsonFile(presets')]_vars

\* Witness of C17: in v041 the other instance had just written its set for
\* a preset; this instance, which never loaded that set, has saved another
\* preset, and the file holds nothing for the first one.
C17_Witness ==
    /\ version = "v041"
    /\ peer.running
    /\ lastOp.op = "save"
    /\ peer.last_saved \in PresetNames
    /\ active_preset # peer.last_saved
    /\ peer.presets[peer.last_saved] # EmptyDict
    /\ presets[peer.last_saved] = EmptyDict
    /\ presets_file = JsonFile(presets)

=============================================================================
